---- MODULE Spec2Model ----
(***************************************************************************)
(* Nebula Rush: the per-tick physics integrator (PhysicsEngine.ts), the    *)
(* race entry (Ship.ts), the AI controller and opponent manager            *)
(* (OpponentManager.ts) and the race state machine of Game.tsx.            *)
(*                                                                         *)
(* Numbers are fixed point.  Quantities measured in track units, in        *)
(* velocity units, throttle and roll are held in thousandths (scale M);    *)
(* angles in radians and the multiplicative factors (friction, slide,      *)
(* sine, cosine) are held in ten-thousandths (scale U); trackProgress is   *)
(* held in thousandths of a loop (scale PU); boostTimer is held in         *)
(* sixtieths of a second, so that one reference tick (dt = 1) is one unit. *)
(* dt is a whole number of reference ticks.  Products are truncated        *)
(* toward zero.                                                            *)
(***************************************************************************)
EXTENDS Integers, Sequences, FiniteSets, TLC

VARIABLES
    ships,          \* Ship objects: id 0 is playerShip, 1.. are OpponentManager.opponents
    controllers,    \* AIInputController per opponent: targetLateral and keys
    keys,           \* InputManager.keys: the set of keys currently held
    raceStarted,    \* raceStartedRef
    raceFinished,   \* raceFinishedRef (player finished)
    allFinished,    \* allFinishedRef
    raceState,      \* React state raceState
    now,            \* Date.now(), in reference ticks
    countdownStart, \* countdownStartTime
    raceStartTime,  \* raceStartTime
    trackIndex,     \* currentTrackIndex
    ranking,        \* allShips after the sort of the last frame (ship ids)
    results,        \* raceResults: ranking snapshot with points
    resultsCount,   \* how many times the results were generated in this race
    lapHud,         \* React state lap
    emitted,        \* per ship: message updatePhysics passed to its callback in the last step
    forwarded,      \* per ship: message Ship.update passed on to its caller in the last step
    lastDt,         \* dt of the last step
    prev,           \* the ships before the last action
    lastAction,     \* the kind of the last action
    roster,         \* ship configurations: 0 is the shipConfig prop, 1.. the opponent roster
    keyEvents,      \* number of key events so far
    ticks,          \* number of frames of the current race so far
    defaultVelocity,\* INITIAL_GAME_STATE.velocity, a THREE.Vector2 object of the module
    actor,          \* the craft the last action stepped or reset alone, -1 when none
    frame,          \* the track frame the last call of getTrackFrame returned
    travel          \* net forward travel of craft 0 since its last lap event, at scale PU

vars == << ships, controllers, keys, raceStarted, raceFinished, allFinished,
           raceState, now, countdownStart, raceStartTime, trackIndex, ranking,
           results, resultsCount, lapHud, emitted, forwarded, lastDt, prev,
           lastAction, roster, keyEvents, ticks, defaultVelocity, actor, frame,
           travel >>

----------------------------------------------------------------------------
(* Fixed-point arithmetic *)

M  == 1000
U  == 10000
PU == 1000

\* the value of a one-element set. Val({ e : x \in {a} }) is e with x naming the
\* value of a, which is computed once.
Val(S) == CHOOSE v \in S : TRUE

Abs(x) == Val({ IF v < 0 THEN -v ELSE v : v \in {x} })

Sign(x) == Val({ IF v > 0 THEN 1 ELSE IF v < 0 THEN -1 ELSE 0 : v \in {x} })

Min(a, b) == Val({ IF v < w THEN v ELSE w : v \in {a}, w \in {b} })

Max(a, b) == Val({ IF v > w THEN v ELSE w : v \in {a}, w \in {b} })

\* a / b truncated toward zero, b > 0
TDiv(a, b) == Val({ IF v >= 0 THEN v \div b ELSE -((-v) \div b) : v \in {a} })

\* a * b / s truncated toward zero, without forming a * b (s > 0)
MulDiv(a, b, s) ==
    Val({ (IF (v < 0) = (w < 0) THEN 1 ELSE -1)
             * ((Abs(v) \div s) * Abs(w) + ((Abs(v) % s) * Abs(w)) \div s) :
          v \in {a}, w \in {b} })

\* the function f with its values computed once
Array(f) == f @@ << >>

\* a factor that is not raised to the power dt
PowOnce(f, n) == f

\* Math.pow(f, dt) for a factor f at scale U and a whole dt
RECURSIVE Pow(_, _)
Pow(f, n) == IF n = 0 THEN U ELSE MulDiv(Pow(f, n - 1), f, U)

PI == 31416

\* yaw folded into [-PI, PI]
WrapAngle(y) == Val({ IF r > PI THEN r - 2 * PI ELSE r : r \in {y % (2 * PI)} })

\* sine of an angle in [-PI/2, PI/2], Taylor polynomial to the 7th power
SinCore(x) ==
    Val({ Val({ x - TDiv(x3, 6) + TDiv(MulDiv(x3, x2, U), 120)
                  - TDiv(MulDiv(MulDiv(x3, x2, U), x2, U), 5040) :
                x3 \in {MulDiv(x2, x, U)} }) :
          x2 \in {MulDiv(x, x, U)} })

\* Math.sin, angle and result at scale U
Sin(y) ==
    Val({ Max(-U, Min(U, SinCore(IF w > PI \div 2 THEN PI - w
                                 ELSE IF w < -(PI \div 2) THEN -PI - w
                                 ELSE w))) :
          w \in {WrapAngle(y)} })

\* Math.cos
Cos(y) == Sin(y + PI \div 2)

----------------------------------------------------------------------------
(* PhysicsEngine.ts *)

PLAYER_START_T == 940

\* INITIAL_GAME_STATE. velocity is a reference to a THREE.Vector2: the field velocity
\* holds the vector's value and velocityObject says which object it is, the one
\* INITIAL_GAME_STATE was built with or one of the state's own.
INITIAL_GAME_STATE ==
    [ trackProgress |-> PLAYER_START_T,
      velocity |-> [x |-> 0, y |-> 0],
      velocityObject |-> "INITIAL_GAME_STATE",
      yaw |-> 0,
      lateralPosition |-> 0,
      verticalPosition |-> 2000,
      verticalVelocity |-> 0,
      rotation |-> 0,
      targetRotation |-> 0,
      hoverHeight |-> 2000,
      hoverStrength |-> 150,
      hoverDamping |-> 300,
      gravity |-> -15,
      throttle |-> 0,
      friction |-> 9900,
      slideFactor |-> 9900,
      accelFactor |-> 500,
      turnSpeed |-> 10,
      strafeSpeed |-> 10,
      cameraLateral |-> 0,
      boostTimer |-> 0,
      hasCrossedStartLine |-> FALSE ]

\* BOOST_PADS: trackProgress and length at scale PU, lateralPosition and width at scale M
BOOST_PADS ==
    { [trackProgress |-> 150, lateralPosition |-> 0,      width |-> 40000, length |-> 20],
      [trackProgress |-> 350, lateralPosition |-> -30000, width |-> 40000, length |-> 20],
      [trackProgress |-> 550, lateralPosition |-> 30000,  width |-> 40000, length |-> 20],
      [trackProgress |-> 850, lateralPosition |-> 0,      width |-> 40000, length |-> 20] }

BOOST_DURATION == 300

\* the test of lines 174-178: the craft is inside pad; 2*|d| < size is |d| < size/2
InPad(state, pad) ==
    /\ 2 * Abs(state.trackProgress - pad.trackProgress) < pad.length
    /\ 2 * Abs(state.lateralPosition - pad.lateralPosition) < pad.width

InAnyPad(state) == \E pad \in BOOST_PADS : InPad(state, pad)

visualWallLimit == 60000

softWallLimit == visualWallLimit - 5000

minHeight == 1500

\* checkCollision without the hard clamp of lines 309-313
checkCollisionSoftOnly(state) ==
    LET lat  == state.lateralPosition
        sign == Sign(lat)
        vx1  == IF Abs(lat) > softWallLimit
                THEN LET pushed == state.velocity.x - sign * (Abs(lat) - softWallLimit) * 2
                     IN  IF sign * pushed > 0
                         THEN IF Abs(lat) > visualWallLimit - 1000
                              THEN MulDiv(pushed, -4, 10)
                              ELSE MulDiv(pushed, 95, 100)
                         ELSE pushed
                ELSE state.velocity.x
        low  == state.verticalPosition < minHeight
        vp2  == IF low THEN minHeight ELSE state.verticalPosition
        vv2  == IF low /\ state.verticalVelocity < 0 THEN 0 ELSE state.verticalVelocity
    IN  [state EXCEPT !.velocity = [x |-> vx1, y |-> state.velocity.y],
                      !.verticalPosition = vp2,
                      !.verticalVelocity = vv2]

\* checkCollision whose ground floor lifts the craft and leaves its fall (no lines 319-321)
checkCollisionKeepingFall(state) ==
    LET lat  == state.lateralPosition
        sign == Sign(lat)
        vx1  == IF Abs(lat) > softWallLimit
                THEN LET pushed == state.velocity.x - sign * (Abs(lat) - softWallLimit) * 2
                     IN  IF sign * pushed > 0
                         THEN IF Abs(lat) > visualWallLimit - 1000
                              THEN MulDiv(pushed, -4, 10)
                              ELSE MulDiv(pushed, 95, 100)
                         ELSE pushed
                ELSE state.velocity.x
        hard == Abs(lat) > visualWallLimit
        lat2 == IF hard THEN sign * (visualWallLimit - 100) ELSE lat
        vx2  == IF hard THEN MulDiv(vx1, -2, 10) ELSE vx1
        low  == state.verticalPosition < minHeight
        vp2  == IF low THEN minHeight ELSE state.verticalPosition
    IN  [state EXCEPT !.lateralPosition = lat2,
                      !.velocity = [x |-> vx2, y |-> state.velocity.y],
                      !.verticalPosition = vp2]

\* checkCollision(state)
checkCollision(state) ==
    LET lat  == state.lateralPosition
        sign == Sign(lat)
        \* soft wall: repulsive force, then bounce or drag while still moving outward
        vx1  == IF Abs(lat) > softWallLimit
                THEN LET pushed == state.velocity.x - sign * (Abs(lat) - softWallLimit) * 2
                     IN  IF sign * pushed > 0
                         THEN IF Abs(lat) > visualWallLimit - 1000
                              THEN MulDiv(pushed, -4, 10)
                              ELSE MulDiv(pushed, 95, 100)
                         ELSE pushed
                ELSE state.velocity.x
        \* hard clamp
        hard == Abs(lat) > visualWallLimit
        lat2 == IF hard THEN sign * (visualWallLimit - 100) ELSE lat
        vx2  == IF hard THEN MulDiv(vx1, -2, 10) ELSE vx1
        \* ground floor
        low  == state.verticalPosition < minHeight
        vp2  == IF low THEN minHeight ELSE state.verticalPosition
        vv2  == IF low /\ state.verticalVelocity < 0 THEN 0 ELSE state.verticalVelocity
    IN  [state EXCEPT !.lateralPosition = lat2,
                      !.velocity = [x |-> vx2, y |-> state.velocity.y],
                      !.verticalPosition = vp2,
                      !.verticalVelocity = vv2]

\* isKeyPressed of an InputSource whose held keys are the set ks
isKeyPressed(ks, k) == k \in ks

\* lines 128-131: the boost timer after the thrust stage
boostAfterThrust(boostTimer, dt) ==
    IF boostTimer > 0 THEN boostTimer - dt ELSE boostTimer

\* a pad that adds its duration to the running timer instead of setting it
boostAfterPadsStacking(state, boostTimer) ==
    IF InAnyPad(state) THEN boostTimer + BOOST_DURATION ELSE boostTimer

\* lines 173-182: the boost timer after the pad check; state is the craft before the move
boostAfterPads(state, boostTimer) ==
    IF InAnyPad(state) THEN BOOST_DURATION ELSE boostTimer

\* A number is an IEEE-754 double, so a sum is rounded to the nearest double, a tie
\* going to the even significand. The doubles of trackProgress are modelled with a
\* short significand: below 1/2 every multiple of 1/PU is one, in [1/2, 1) every
\* second multiple, in [1, 2) every fourth. Dbl(x) is the double nearest to x.
Dbl(x) ==
    Val({ LET q  == IF 2 * a < PU THEN 1 ELSE IF a < PU THEN 2 ELSE IF a < 2 * PU THEN 4 ELSE 8
              lo == (a \div q) * q
              r  == a - lo
              up == lo + q
          IN  IF 2 * r < q THEN sg * lo
              ELSE IF 2 * r > q THEN sg * up
              ELSE IF (lo \div q) % 2 = 0 THEN sg * lo ELSE sg * up :
          a \in {Abs(x)}, sg \in {Sign(x)} })

\* lines 190-206: trackProgress after the wrap (-= 1.0 on overflow, += 1.0 on underflow)
wrapProgress(tp) ==
    IF tp >= PU THEN Dbl(tp - PU)
    ELSE IF tp < 0 THEN Dbl(tp + PU)
    ELSE tp

\* a lap message on either wrap, the backward one included
lapMessageBothWays(tp, hasCrossedStartLine) ==
    IF tp >= PU \/ tp < 0
    THEN IF ~hasCrossedStartLine THEN "1" ELSE "INCREMENT"
    ELSE "NONE"

\* lines 190-202: the message passed to onLapComplete, "NONE" when it is not called
lapMessage(tp, hasCrossedStartLine) ==
    IF tp >= PU
    THEN IF ~hasCrossedStartLine THEN "1" ELSE "INCREMENT"
    ELSE "NONE"

\* throttle set straight to 1 or 0 by the forward key
steerInstant(state, ks, dt, started) ==
    [state EXCEPT
        !.throttle = IF started /\ (isKeyPressed(ks, "ArrowUp") \/ isKeyPressed(ks, "w"))
                     THEN M ELSE 0,
        !.yaw = IF isKeyPressed(ks, "q") THEN state.yaw + state.turnSpeed * dt
                ELSE IF isKeyPressed(ks, "e") THEN state.yaw - state.turnSpeed * dt
                ELSE MulDiv(state.yaw, Pow(9800, dt), U),
        !.targetRotation = IF isKeyPressed(ks, "q") \/ isKeyPressed(ks, "e")
                           THEN state.targetRotation ELSE 0]

\* throttle and steering that ramp the throttle whenever forward is held, started or not
steerUngated(state, ks, dt, started) ==
    [state EXCEPT
        !.throttle = IF isKeyPressed(ks, "ArrowUp") \/ isKeyPressed(ks, "w")
                     THEN Min(state.throttle + 50 * dt, M)
                     ELSE Max(state.throttle - 30 * dt, 0),
        !.yaw = IF isKeyPressed(ks, "q") THEN state.yaw + state.turnSpeed * dt
                ELSE IF isKeyPressed(ks, "e") THEN state.yaw - state.turnSpeed * dt
                ELSE MulDiv(state.yaw, Pow(9800, dt), U),
        !.targetRotation = IF isKeyPressed(ks, "q") \/ isKeyPressed(ks, "e")
                           THEN state.targetRotation ELSE 0]

\* lines 99-120: throttle (1) and steering (2)
steer(state, ks, dt, started) ==
    [state EXCEPT
        !.throttle = IF started /\ (isKeyPressed(ks, "ArrowUp") \/ isKeyPressed(ks, "w"))
                     THEN Min(state.throttle + 50 * dt, M)
                     ELSE Max(state.throttle - 30 * dt, 0),
        !.yaw = IF isKeyPressed(ks, "q") THEN state.yaw + state.turnSpeed * dt
                ELSE IF isKeyPressed(ks, "e") THEN state.yaw - state.turnSpeed * dt
                ELSE MulDiv(state.yaw, Pow(9800, dt), U),
        !.targetRotation = IF isKeyPressed(ks, "q") \/ isKeyPressed(ks, "e")
                           THEN state.targetRotation ELSE 0]

\* lines 124-163: main thruster and boost (3), side thrusters (4), drag (5), jump (6)
thrust(state, ks, dt) ==
    LET base == MulDiv(state.throttle, state.accelFactor, M)
        thrustPower == IF state.boostTimer > 0 THEN MulDiv(base, 135, 100) ELSE base
        right == isKeyPressed(ks, "ArrowRight") \/ isKeyPressed(ks, "d")
        left  == isKeyPressed(ks, "ArrowLeft") \/ isKeyPressed(ks, "a")
        vx == state.velocity.x - MulDiv(Sin(state.yaw), thrustPower, U)
                 + (IF right THEN state.strafeSpeed * dt ELSE 0)
                 - (IF left THEN state.strafeSpeed * dt ELSE 0)
        vy == state.velocity.y + MulDiv(Cos(state.yaw), thrustPower, U)
        jump == isKeyPressed(ks, " ") \/ isKeyPressed(ks, "ArrowDown") \/ isKeyPressed(ks, "s")
    IN  [state EXCEPT
            !.boostTimer = boostAfterThrust(state.boostTimer, dt),
            !.targetRotation = IF left THEN -400 ELSE IF right THEN 400 ELSE @,
            !.velocity = [x |-> MulDiv(vx, Pow(state.slideFactor, dt), U),
                          y |-> MulDiv(vy, Pow(state.friction, dt), U)],
            !.verticalVelocity = IF /\ jump
                                    /\ 2 * state.verticalPosition < 3 * state.hoverHeight
                                    /\ state.verticalVelocity < 250
                                 THEN @ + 50 * dt
                                 ELSE @]

\* lines 254-261: verticalVelocity after gravity and the hover spring
hover(state, dt) ==
    Val({ IF state.verticalPosition < state.hoverHeight
          THEN LET springForce == MulDiv(state.hoverHeight - state.verticalPosition,
                                         state.hoverStrength, M)
                   dampingForce == MulDiv(-vv, state.hoverDamping, M)
               IN  vv + (springForce + dampingForce) * dt
          ELSE vv :
          vv \in {state.verticalVelocity + state.gravity * dt} })

\* lines 165-263: the position update. The pads are tested on the position before the
\* move; tp is trackProgress + progressChange as line 185 leaves it. Gives the state and
\* the message passed to onLapComplete.
move(state, trackLength, dt) ==
    Val({ [ state |-> [state EXCEPT
                          !.boostTimer = boostAfterPads(state, state.boostTimer),
                          !.trackProgress = wrapProgress(tp),
                          !.hasCrossedStartLine = @ \/ tp >= PU,
                          !.lateralPosition = @ + state.velocity.x * dt,
                          !.verticalVelocity = vv,
                          !.verticalPosition = @ + vv * dt],
            msg |-> lapMessage(tp, state.hasCrossedStartLine) ] :
          tp \in {Dbl(state.trackProgress + TDiv(state.velocity.y * dt, trackLength))},
          vv \in {hover(state, dt)} })

\* lines 268-278: visual rotation lag and camera lag
lag(state, dt) ==
    [state EXCEPT
        !.rotation = @ + TDiv((state.targetRotation - state.rotation) * dt, 10),
        !.cameraLateral = @ + TDiv((state.lateralPosition - state.cameraLateral) * dt, 20)]

\* lines 266-278: collision and lag on the moved state
settle(moved, dt) ==
    Val({ [state |-> lag(hit, dt), msg |-> moved.msg] :
          hit \in {checkCollision(moved.state)} })

\* a step that tests the boost pads before the thrust stage, so that a pad boosts the
\* thrust of the step that picks it up
updatePhysicsPadsFirst(state, ks, trackLength, dt, started) ==
    Val({ settle(moved, dt) :
          moved \in { move(thrusted, trackLength, dt) :
                      thrusted \in { thrust([steered EXCEPT
                                                !.boostTimer = boostAfterPads(state, @)],
                                            ks, dt) :
                                     steered \in { steer(state, ks, dt, started) } } } })

\* updatePhysics(state, inputManager, trackLength, dt, onLapComplete, raceStarted):
\* the state after the step and the message passed to onLapComplete
\* ("NONE" when it is not called, "1" for the number 1, "INCREMENT").
\* trackLength is in whole track units.
updatePhysics(state, ks, trackLength, dt, started) ==
    Val({ settle(moved, dt) :
          moved \in { move(thrusted, trackLength, dt) :
                      thrusted \in { thrust(steered, ks, dt) :
                                     steered \in { steer(state, ks, dt, started) } } } })

----------------------------------------------------------------------------
(* ShipFactory.ts, Ship.ts *)

\* SHIP_STATS, the fields the Ship constructor copies
SHIP_STATS ==
    [ fighter     |-> [accelFactor |-> 550, turnSpeed |-> 10, friction |-> 9911, strafeSpeed |-> 11],
      speedster   |-> [accelFactor |-> 450, turnSpeed |-> 9,  friction |-> 9930, strafeSpeed |-> 9],
      tank        |-> [accelFactor |-> 650, turnSpeed |-> 11, friction |-> 9880, strafeSpeed |-> 15],
      interceptor |-> [accelFactor |-> 750, turnSpeed |-> 15, friction |-> 9900, strafeSpeed |-> 13],
      corsair     |-> [accelFactor |-> 500, turnSpeed |-> 12, friction |-> 9920, strafeSpeed |-> 10] ]

TOTAL_LAPS == 5

\* a constructor that starts the lap counter at 1, the first lap, instead of 0, the grid
NewShipOnLapOne(isPlayer, config) ==
    [ state |-> [INITIAL_GAME_STATE EXCEPT !.velocity = [x |-> 0, y |-> 0],
                                           !.velocityObject = "own",
                                           !.accelFactor = config.accelFactor,
                                           !.turnSpeed = config.turnSpeed,
                                           !.friction = config.friction,
                                           !.strafeSpeed = config.strafeSpeed],
      isPlayer |-> isPlayer,
      lap |-> 1,
      finished |-> FALSE,
      finishTime |-> 0 ]

\* a constructor that keeps the velocity reference the spread copied from
\* INITIAL_GAME_STATE (no line 33)
NewShipSharedVelocity(isPlayer, config) ==
    [ state |-> [INITIAL_GAME_STATE EXCEPT !.accelFactor = config.accelFactor,
                                           !.turnSpeed = config.turnSpeed,
                                           !.friction = config.friction,
                                           !.strafeSpeed = config.strafeSpeed],
      isPlayer |-> isPlayer,
      lap |-> 0,
      finished |-> FALSE,
      finishTime |-> 0 ]

\* new Ship(scene, isPlayer, config): the spread copy of INITIAL_GAME_STATE (line 32), a
\* new Vector2 for velocity (line 33) and the config overrides
NewShip(isPlayer, config) ==
    [ state |-> [INITIAL_GAME_STATE EXCEPT !.velocity = [x |-> 0, y |-> 0],
                                           !.velocityObject = "own",
                                           !.accelFactor = config.accelFactor,
                                           !.turnSpeed = config.turnSpeed,
                                           !.friction = config.friction,
                                           !.strafeSpeed = config.strafeSpeed],
      isPlayer |-> isPlayer,
      lap |-> 0,
      finished |-> FALSE,
      finishTime |-> 0 ]

\* a callback that counts the first crossing as a lap too: "INCREMENT" adds two
shipOnLapSkipping(ship, msg, clock) ==
    IF msg = "NONE" \/ ship.finished
    THEN [ship |-> ship, fwd |-> "NONE"]
    ELSE IF msg = "1"
    THEN [ship |-> [ship EXCEPT !.lap = 1], fwd |-> msg]
    ELSE LET lap == ship.lap + 2
         IN  [ship |-> IF lap > TOTAL_LAPS
                       THEN [ship EXCEPT !.lap = lap, !.finished = TRUE, !.finishTime = clock]
                       ELSE [ship EXCEPT !.lap = lap],
              fwd |-> msg]

\* a callback without the guard of line 69: a finished craft keeps counting laps
shipOnLapUnlatched(ship, msg, clock) ==
    IF msg = "NONE"
    THEN [ship |-> ship, fwd |-> "NONE"]
    ELSE IF msg = "1"
    THEN [ship |-> [ship EXCEPT !.lap = 1], fwd |-> msg]
    ELSE LET lap == ship.lap + 1
         IN  [ship |-> IF lap > TOTAL_LAPS
                       THEN [ship EXCEPT !.lap = lap, !.finished = TRUE, !.finishTime = clock]
                       ELSE [ship EXCEPT !.lap = lap],
              fwd |-> msg]

\* the callback Ship.update hands to updatePhysics (lines 68-82), applied to msg:
\* the ship after it and the message passed on to the caller's onLapComplete
shipOnLap(ship, msg, clock) ==
    IF msg = "NONE" \/ ship.finished
    THEN [ship |-> ship, fwd |-> "NONE"]
    ELSE IF msg = "1"
    THEN [ship |-> [ship EXCEPT !.lap = 1], fwd |-> msg]
    ELSE LET lap == ship.lap + 1
         IN  [ship |-> IF lap > TOTAL_LAPS
                       THEN [ship EXCEPT !.lap = lap, !.finished = TRUE, !.finishTime = clock]
                       ELSE [ship EXCEPT !.lap = lap],
              fwd |-> msg]

\* Ship.update(dt, inputManager, trackLength, onLapComplete, raceStarted):
\* the ship after it, the message of updatePhysics and the message passed on
shipUpdate(ship, dt, ks, trackLength, started, clock) ==
    Val({ Val({ [ship |-> c.ship, msg |-> r.msg, fwd |-> c.fwd] :
                c \in {shipOnLap([ship EXCEPT !.state = r.state], r.msg, clock)} }) :
          r \in {updatePhysics(ship.state, ks, trackLength, dt, started)} })

\* the craft's state.velocity refers to the Vector2 of INITIAL_GAME_STATE
sharesDefault(ship) == ship.state.velocityObject = "INITIAL_GAME_STATE"

\* the ships sh as found after craft i has become ship: updatePhysics and the pre-start
\* reset write velocity.x and velocity.y in place, so every state that refers to the
\* same Vector2 shows the new value
writeBack(sh, i, ship) ==
    [j \in DOMAIN sh |->
        IF j = i THEN ship
        ELSE IF sharesDefault(ship) /\ sharesDefault(sh[j])
        THEN [sh[j] EXCEPT !.state.velocity = ship.state.velocity]
        ELSE sh[j]]

\* the ships sh with the value dv of INITIAL_GAME_STATE.velocity shown in every state
\* that refers to it
seenShips(sh, dv) ==
    [j \in DOMAIN sh |->
        IF sharesDefault(sh[j]) THEN [sh[j] EXCEPT !.state.velocity = dv] ELSE sh[j]]

\* the value of INITIAL_GAME_STATE.velocity, dv before, with the ships sh written
defaultSeen(sh, dv) ==
    IF \E j \in DOMAIN sh : sharesDefault(sh[j])
    THEN sh[CHOOSE j \in DOMAIN sh : sharesDefault(sh[j])].state.velocity
    ELSE dv

\* Ship.getTotalProgress(), at scale PU
getTotalProgress(ship) == ship.lap * PU + ship.state.trackProgress

----------------------------------------------------------------------------
(* OpponentManager.ts *)

\* a controller that never requests throttle
aiUpdateNoThrottle(state, targetLateral) ==
    LET error == state.lateralPosition - targetLateral
    IN  IF error > 1000 THEN {"a", "ArrowLeft"}
        ELSE IF error < -1000 THEN {"d", "ArrowRight"}
        ELSE {}

\* AIInputController.update(state): the keys held after the decision
aiUpdate(state, targetLateral) ==
    LET error == state.lateralPosition - targetLateral
        deadzone == 1000
    IN  {"w", "ArrowUp"}
        \cup (IF error > deadzone THEN {"a", "ArrowLeft"}
              ELSE IF error < -deadzone THEN {"d", "ArrowRight"}
              ELSE {})

\* a decision that adds to the keys of the decisions before it (no reset of line 841)
aiDecideKeepingKeys(controller, state) ==
    [controller EXCEPT !.keys = @ \cup aiUpdate(state, controller.targetLateral)]

\* controller.update(opponent.state): the controller after the decision; its keys are
\* reset (line 841) and set anew
aiDecide(controller, state) ==
    [controller EXCEPT !.keys = aiUpdate(state, controller.targetLateral)]

\* spawnOpponents: opponent number i (from 0) of the roster, on the grid
spawnOpponent(i, config) ==
    LET row == (i \div 2) + 1
        col == i % 2
        t == (930 + row * 2) % PU
        lateral == (IF col = 0 THEN -1 ELSE 1) * 15000
        ship == NewShip(FALSE, config)
    IN  [ship EXCEPT !.state.trackProgress = t, !.state.lateralPosition = lateral]

----------------------------------------------------------------------------
(* TrackFactory.ts *)

\* THREE.Vector3, components at scale U
Vec(x, y, z) == [x |-> x, y |-> y, z |-> z]

\* Math.sqrt of a whole number, rounded to the nearest whole number
RECURSIVE sqrtBetween(_, _, _)
sqrtBetween(n, lo, hi) ==
    IF lo >= hi THEN lo
    ELSE Val({ IF mid * mid <= n THEN sqrtBetween(n, mid, hi)
               ELSE sqrtBetween(n, lo, mid - 1) :
               mid \in {(lo + hi + 1) \div 2} })

Sqrt(n) == Val({ IF n - r * r > r THEN r + 1 ELSE r : r \in {sqrtBetween(n, 0, 46340)} })

\* Vector3.crossVectors(a, b)
crossVectors(a, b) ==
    Val({ Vec(MulDiv(p.y, q.z, U) - MulDiv(p.z, q.y, U),
              MulDiv(p.z, q.x, U) - MulDiv(p.x, q.z, U),
              MulDiv(p.x, q.y, U) - MulDiv(p.y, q.x, U)) :
          p \in {a}, q \in {b} })

\* Vector3.dot
dot(a, b) ==
    Val({ MulDiv(p.x, q.x, U) + MulDiv(p.y, q.y, U) + MulDiv(p.z, q.z, U) :
          p \in {a}, q \in {b} })

\* Vector3.length()
length(v) == Val({ Sqrt(p.x * p.x + p.y * p.y + p.z * p.z) : p \in {v} })

\* Vector3.normalize(): divideScalar(length() || 1), so the zero vector stays zero
normalize(v) ==
    Val({ Val({ IF l = 0 THEN p
                ELSE Vec(TDiv(p.x * U, l), TDiv(p.y * U, l), TDiv(p.z * U, l)) :
                l \in {length(p)} }) :
          p \in {v} })

\* Vector3.applyAxisAngle(axis, angle): the quaternion of the axis and the angle
\* (setFromAxisAngle) applied to v (applyQuaternion)
applyAxisAngle(v, axis, angle) ==
    Val({ Val({ Val({ Val({ Vec(p.x + MulDiv(qw, t.x, U) + c.x,
                                p.y + MulDiv(qw, t.y, U) + c.y,
                                p.z + MulDiv(qw, t.z, U) + c.z) :
                            c \in {crossVectors(q, t)} }) :
                      t \in { Vec(2 * h.x, 2 * h.y, 2 * h.z) : h \in {crossVectors(q, p)} } }) :
                q \in { Vec(MulDiv(axis.x, s, U), MulDiv(axis.y, s, U), MulDiv(axis.z, s, U)) :
                        s \in {Sin(TDiv(angle, 2))} } }) :
          p \in {v}, qw \in {Cos(TDiv(angle, 2))} })

\* sampleOffset of line 17, at scale PU
sampleOffset == 40

\* a track curve is known by its tangents at the multiples of sampleOffset
GridSize == PU \div sampleOffset

\* trackCurve.getTangent(t).normalize() for t a multiple of sampleOffset; track holds
\* the directions of the curve, in whole numbers
getTangent(track, t) ==
    Val({ normalize(Vec(d[1] * M, d[2] * M, d[3] * M)) :
          d \in {track[((t \div sampleOffset) % GridSize) + 1]} })

\* weights of line 30, in hundredths
weights == << 5, 10, 20, 30, 20, 10, 5 >>

\* lines 20-27: the sample of turn i of the loop, i from -3 to 3
curvatureSample(track, t, i) ==
    Val({ crossVectors(getTangent(track, sampleT),
                       getTangent(track, (sampleT + sampleOffset + PU) % PU)) :
          sampleT \in {(t + i * sampleOffset + PU) % PU} })

\* lines 29-34: the weighted sum of the first n samples
RECURSIVE curvatureSum(_, _, _)
curvatureSum(track, t, n) ==
    IF n = 0 THEN Vec(0, 0, 0)
    ELSE Val({ Vec(acc.x + MulDiv(s.x, weights[n], 100),
                   acc.y + MulDiv(s.y, weights[n], 100),
                   acc.z + MulDiv(s.z, weights[n], 100)) :
               acc \in {curvatureSum(track, t, n - 1)},
               s \in {curvatureSample(track, t, n - 4)} })

\* bankingFactor of line 37 and the raw bank angle of line 40
rawBankAngle(curvatureVector) == -(curvatureVector.y) * 4

deadzone == 1000

smoothRange == 1500

maxBank == PI \div 3

\* lines 44-53 without the clamp of line 58
bankAngleUnclamped(raw) ==
    Val({ IF absBankAngle < deadzone + smoothRange
          THEN Val({ Sign(raw) * MulDiv(absBankAngle,
                                        MulDiv(MulDiv(t, t, U), 3 * U - 2 * t, U), U) :
                     t \in {Max(0, TDiv((absBankAngle - deadzone) * U, smoothRange))} })
          ELSE raw :
          absBankAngle \in {Abs(raw)} })

\* lines 44-58: the smooth deadzone and the clamp
bankAngleOf(raw) ==
    Max(-maxBank, Min(maxBank, bankAngleUnclamped(raw)))

\* lines 64-66 without the fallback of line 66
flatBinormalNoFallback(tangent) ==
    normalize(crossVectors(tangent, Vec(0, U, 0)))

\* lines 64-66: the flat binormal; the fallback is taken when its length is below 0.01
flatBinormal(tangent) ==
    Val({ IF length(b) < 100 THEN Vec(U, 0, 0) ELSE b :
          b \in {normalize(crossVectors(tangent, Vec(0, U, 0)))} })

\* getTrackFrame(trackCurve, t) for t a multiple of sampleOffset: the frame returned,
\* with the bank angle and whether the fallback was taken
getTrackFrame(track, t) ==
    Val({ Val({ Val({ [ t |-> t,
                        track |-> track,
                        computed |-> TRUE,
                        tangent |-> tangent,
                        binormal |-> binormal,
                        normal |-> normalize(crossVectors(binormal, tangent)),
                        rawBank |-> raw,
                        bankAngle |-> bankAngle,
                        fallback |->
                            length(normalize(crossVectors(tangent, Vec(0, U, 0)))) < 100 ] :
                      binormal \in {applyAxisAngle(flat, tangent, bankAngle)} }) :
                flat \in {flatBinormal(tangent)},
                bankAngle \in {bankAngleOf(raw)} }) :
          tangent \in {getTangent(track, t)},
          raw \in {rawBankAngle(curvatureSum(track, t, 7))} })

\* no frame computed yet
NoFrame ==
    [ t |-> 0, track |-> << >>, computed |-> FALSE,
      tangent |-> Vec(0, 0, 0), binormal |-> Vec(0, 0, 0), normal |-> Vec(0, 0, 0),
      rawBank |-> 0, bankAngle |-> 0, fallback |-> FALSE ]

----------------------------------------------------------------------------
(* Game.tsx *)

\* bounds of the model
NumOpponents == 2

TrackLength == 120

CountdownTicks == 8

MaxTicks == 32

MaxKeyEvents == 1

\* program constants
DT_CAP == 4

NUM_TRACKS == 5

POINTS_TABLE == << 100, 93, 87, 82, 78, 75, 72, 69, 66, 63,
                   60, 58, 56, 54, 52, 50, 48, 46, 44, 42 >>

ShipIds == 0 .. NumOpponents

OppIds == 1 .. NumOpponents

\* a comparator that ranks by progress alone
compareShipsByProgress(a, b) ==
    getTotalProgress(b) - getTotalProgress(a)

\* the comparator of allShips.sort (lines 428-436)
compareShips(a, b) ==
    IF a.finished /\ b.finished THEN a.finishTime - b.finishTime
    ELSE IF a.finished THEN -1
    ELSE IF b.finished THEN 1
    ELSE getTotalProgress(b) - getTotalProgress(a)

\* Array.prototype.sort with comparator cmp over the ships sh: a stable insertion sort
RECURSIVE insertSorted(_, _, _)
insertSorted(sh, sorted, x) ==
    IF sorted = << >> THEN << x >>
    ELSE LET last == sorted[Len(sorted)]
         IN  IF compareShips(sh[last], sh[x]) > 0
             THEN Append(insertSorted(sh, SubSeq(sorted, 1, Len(sorted) - 1), x), last)
             ELSE Append(sorted, x)

RECURSIVE sortShips(_, _)
sortShips(sh, ids) ==
    IF ids = << >> THEN << >>
    ELSE Val({ insertSorted(sh, sorted, ids[Len(ids)]) :
               sorted \in {sortShips(sh, SubSeq(ids, 1, Len(ids) - 1))} })

\* allShips = [playerShip, ...opponents]
allShipIds(sh) == [i \in 1 .. Cardinality(DOMAIN sh) |-> i - 1]

\* allShips.some(s => s.finished)
anyDone(sh) == \E i \in DOMAIN sh : sh[i].finished

\* allShips.every(s => s.finished)
allDone(sh) == \A i \in DOMAIN sh : sh[i].finished

\* the results generated from the sorted ships (lines 452-472)
makeResults(sh, order, raceStart) ==
    [k \in 1 .. Len(order) |->
        [ rank |-> k,
          id |-> order[k],
          isPlayer |-> sh[order[k]].isPlayer,
          points |-> IF k <= Len(POINTS_TABLE) THEN POINTS_TABLE[k] ELSE 0,
          totalTime |-> sh[order[k]].finishTime - raceStart ]]

\* the effect of lines 116-289 on mount: new player ship, new opponents and controllers
mountShips(r) ==
    [i \in ShipIds |-> IF i = 0 THEN NewShip(TRUE, r[0]) ELSE spawnOpponent(i - 1, r[i])]

TargetLaterals == {0}

Rosters ==
    { [i \in ShipIds |-> IF i = 0 THEN SHIP_STATS.fighter
                         ELSE IF i % 2 = 1 THEN SHIP_STATS.interceptor
                         ELSE SHIP_STATS.tank] }

NoMessages == [i \in ShipIds |-> "NONE"]

\* the prop initialTrackIndex: a campaign entered at its last track but one
InitialTrackIndexes == {NUM_TRACKS - 2}

Init ==
    /\ roster \in Rosters
    /\ defaultVelocity = INITIAL_GAME_STATE.velocity
    /\ ships = seenShips(mountShips(roster), defaultVelocity)
    /\ actor = -1
    /\ frame = NoFrame
    /\ travel = 0
    /\ controllers \in [OppIds -> [targetLateral : TargetLaterals, keys : {{}}]]
    /\ keys = {}
    /\ raceStarted = FALSE
    /\ raceFinished = FALSE
    /\ allFinished = FALSE
    /\ raceState = "intro"
    /\ now = 0
    /\ countdownStart = 0
    /\ raceStartTime = 0
    /\ trackIndex \in InitialTrackIndexes
    /\ ranking = << >>
    /\ results = << >>
    /\ resultsCount = 0
    /\ lapHud = 0
    /\ emitted = NoMessages
    /\ forwarded = NoMessages
    /\ lastDt = 0
    /\ prev = ships
    /\ lastAction = "mount"
    /\ keyEvents = 0
    /\ ticks = 0

\* lines 309-366: the countdown elapses in the frame at time clock
countdownOver(clock) ==
    ~raceStarted /\ Max(0, CountdownTicks - (clock - countdownStart)) <= 0

\* a frame that lets the first controller decide for every opponent
updateShipFirstController(sh, i, dt, clock, started) ==
    IF i = 0
    THEN shipUpdate(IF raceStarted THEN sh[0]
                    ELSE [sh[0] EXCEPT !.state.velocity = [x |-> 0, y |-> 0],
                                       !.state.throttle = 0],
                    dt, keys, TrackLength, started, clock)
    ELSE IF started
    THEN shipUpdate(sh[i], dt, aiDecide(controllers[1], sh[1].state).keys,
                    TrackLength, started, clock)
    ELSE [ship |-> sh[i], msg |-> "NONE", fwd |-> "NONE"]

\* lines 309-311 and 389-407 for the player, 414-418 with one turn of the loop of
\* OpponentManager.update for an opponent: craft i of the ships sh in a frame at time
\* clock with step dt; started is raceStartedRef after the race start logic. Gives the
\* ship after the update, the message of updatePhysics and the message passed on.
updateShip(sh, i, dt, clock, started) ==
    IF i = 0
    THEN shipUpdate(IF raceStarted THEN sh[0]
                    ELSE [sh[0] EXCEPT !.state.velocity = [x |-> 0, y |-> 0],
                                       !.state.throttle = 0],
                    dt, keys, TrackLength, started, clock)
    ELSE IF started
    THEN shipUpdate(sh[i], dt, aiDecide(controllers[i], sh[i].state).keys,
                    TrackLength, started, clock)
    ELSE [ship |-> sh[i], msg |-> "NONE", fwd |-> "NONE"]

\* the crafts from i on updated in turn, the player first and the opponents in the
\* order of the array; acc holds the ships and the messages so far
RECURSIVE updateFrom(_, _, _, _, _)
updateFrom(i, acc, dt, clock, started) ==
    IF i > NumOpponents THEN acc
    ELSE Val({ Val({ updateFrom(i + 1, nxt, dt, clock, started) :
                     nxt \in {[ ships |-> writeBack(acc.ships, i, r.ship),
                                msg |-> [acc.msg EXCEPT ![i] = r.msg],
                                fwd |-> [acc.fwd EXCEPT ![i] = r.fwd] ]} }) :
               r \in {updateShip(acc.ships, i, dt, clock, started)} })

\* the player update and the opponent update of a frame: the ships after them, and per
\* ship the message of updatePhysics and the message passed on
updateShips(dt, clock, started) ==
    Val({ updateFrom(0, acc, dt, clock, started) :
          acc \in {[ships |-> ships, msg |-> NoMessages, fwd |-> NoMessages]} })

\* a frame: requestAnimationFrame calls animate (lines 294-546), adv being the time
\* since the last frame. now is measured from the mount of the current race.
Frame(adv) ==
    /\ ticks < MaxTicks
    /\ \E clock \in {now + adv} :
       \E go \in {countdownOver(clock)} :
       \E upd \in {updateShips(Min(adv, DT_CAP), clock, raceStarted \/ go)} :
       \E sh \in {upd.ships} :
       \E order \in {sortShips(sh, allShipIds(sh))} :
       \E playerDone \in {upd.fwd[0] # "NONE" /\ ~raceFinished /\ sh[0].finished} :
       \E done \in {allDone(sh) /\ ~allFinished} :
          /\ ships' = sh
          /\ controllers' = Array([i \in OppIds |->
                                IF raceStarted \/ go
                                THEN aiDecide(controllers[i], ships[i].state)
                                ELSE controllers[i]])
          /\ raceStarted' = (raceStarted \/ go)
          /\ raceStartTime' = IF go THEN clock ELSE raceStartTime
          /\ raceFinished' = (raceFinished \/ playerDone)
          /\ allFinished' = (allFinished \/ done)
          /\ raceState' = IF done THEN "results"
                          ELSE IF playerDone THEN "finished"
                          ELSE IF go THEN "racing"
                          ELSE raceState
          /\ lapHud' = IF upd.fwd[0] = "INCREMENT" THEN lapHud + 1
                       ELSE IF upd.fwd[0] = "1" THEN 1
                       ELSE lapHud
          /\ ranking' = order
          /\ results' = IF done
                        THEN makeResults(sh, order, IF go THEN clock ELSE raceStartTime)
                        ELSE results
          /\ resultsCount' = IF done THEN resultsCount + 1 ELSE resultsCount
          /\ emitted' = upd.msg
          /\ forwarded' = upd.fwd
          /\ defaultVelocity' = defaultSeen(sh, defaultVelocity)
          /\ lastDt' = Min(adv, DT_CAP)
          /\ now' = clock
    /\ prev' = ships
    /\ lastAction' = "frame"
    /\ ticks' = ticks + 1
    /\ actor' = -1
    /\ UNCHANGED << frame, travel, keys, countdownStart, trackIndex, roster, keyEvents >>

\* keys of the keyboard the model presses
GameKeys == {"w", "f", "g"}

\* the keys updatePhysics asks isKeyPressed about; keys holds only these
ControlKeys == {"ArrowUp", "w", "q", "e", "ArrowRight", "d", "ArrowLeft", "a",
                " ", "ArrowDown", "s"}

\* Math.random() * 10000 per opponent (line 103), in reference ticks: the offsets rise
\* with the opponent's number or fall with it
RandomOffsets ==
    { [i \in OppIds |-> 7 * i], [i \in OppIds |-> 7 * (NumOpponents + 1 - i)] }

\* a cheat that raises the flag and leaves the lap counter
forceFinishPlayerFlagOnly(sh, clock) ==
    [sh EXCEPT ![0] = [@ EXCEPT !.finished = TRUE, !.finishTime = clock]]

\* the cheat of lines 90-96
forceFinishPlayer(sh, clock) ==
    [sh EXCEPT ![0] = [@ EXCEPT !.lap = 6, !.finished = TRUE, !.finishTime = clock]]

\* the cheat of lines 98-106; rnd gives each opponent's random offset
forceFinishOpponents(sh, clock, rnd) ==
    [i \in DOMAIN sh |->
        IF i = 0 THEN sh[i]
        ELSE [sh[i] EXCEPT !.lap = 6, !.finished = TRUE, !.finishTime = clock + rnd[i]]]

\* a keydown event: InputManager.handleKeyDown and Game's handleKeyDown (lines 85-111).
\* A key stays held once pressed, and the repeated keydown of a held key, which changes
\* nothing, is left out.
pressKey(k) ==
    /\ k \notin keys
    /\ keyEvents' = keyEvents + 1
    /\ keys' = keys \cup ({k} \cap ControlKeys)
    /\ \/ /\ k = "f"
          /\ ships' = forceFinishPlayer(ships, now)
       \/ /\ k = "g"
          /\ \E rnd \in RandomOffsets :
                ships' = forceFinishOpponents(ships, now, rnd)
       \/ /\ k \notin {"f", "g"}
          /\ UNCHANGED ships
    /\ prev' = ships
    /\ lastAction' = "keydown"
    /\ emitted' = NoMessages
    /\ forwarded' = NoMessages
    /\ lastDt' = 0
    /\ actor' = -1
    /\ UNCHANGED << frame, travel, controllers, raceStarted, raceFinished, allFinished, raceState, now,
                    countdownStart, raceStartTime, trackIndex, ranking, results,
                    resultsCount, lapHud, roster, ticks, defaultVelocity >>

\* handleNextRace (lines 582-598) followed by the re-run of the mount effect for the new
\* track (lines 116-289, 559-579): the Leaderboard offers it in the results state of a
\* campaign when a next track exists (lines 643-652)
NextRace ==
    /\ raceState = "results"
    /\ trackIndex < NUM_TRACKS - 1
    /\ trackIndex' = trackIndex + 1
    /\ ships' = seenShips(mountShips(roster), defaultVelocity)
    /\ actor' = -1
    /\ controllers' \in [OppIds -> [targetLateral : TargetLaterals, keys : {{}}]]
    /\ keys' = {}
    /\ raceStarted' = FALSE
    /\ raceFinished' = FALSE
    /\ allFinished' = FALSE
    /\ raceState' = "intro"
    /\ now' = 0
    /\ countdownStart' = 0
    /\ ranking' = << >>
    /\ results' = << >>
    /\ resultsCount' = 0
    /\ lapHud' = 0
    /\ emitted' = NoMessages
    /\ forwarded' = NoMessages
    /\ lastDt' = 0
    /\ prev' = ships
    /\ lastAction' = "mount"
    /\ ticks' = 0
    /\ UNCHANGED << frame, travel, raceStartTime, roster, keyEvents, defaultVelocity >>

\* a keydown event, MaxKeyEvents bounding their number
KeyDown(k) == keyEvents < MaxKeyEvents /\ pressKey(k)

FrameAdvances == {DT_CAP}

Next ==
    \/ \E adv \in FrameAdvances : Frame(adv)
    \/ \E k \in GameKeys : KeyDown(k)
    \/ NextRace

Spec == Init /\ [][Next]_vars

\* requestAnimationFrame keeps calling animate: a frame that can be taken is taken
SpecFair == Spec /\ WF_vars(\E adv \in FrameAdvances : Frame(adv))

----------------------------------------------------------------------------
(* The first frames of a race, with more key events *)

StartTicks == 4

StartKeyEvents == 2

StartFrame(adv) == ticks < StartTicks /\ Frame(adv)

StartKeyDown(k) == keyEvents < StartKeyEvents /\ pressKey(k)

NextStart ==
    \/ \E adv \in FrameAdvances : StartFrame(adv)
    \/ \E k \in GameKeys : StartKeyDown(k)
    \/ NextRace

SpecStart == Init /\ [][NextStart]_vars

----------------------------------------------------------------------------
(* One craft stepped by Ship.update from sampled states, with any input snapshot and dt *)

PhysTrackLength == 400

PhysSteps == 2

DtSet == {1, 2, 4}

PhysInputs == { {}, {"w"}, {"w", "d"}, {"a"}, {"w", "q"} }

PhysBase == NewShip(TRUE, SHIP_STATS.fighter)

\* crafts around the start line: at rest, at speed, reversing with the nose turned
\* back, and coasting backwards nearly stopped
WrapShips ==
    { [PhysBase EXCEPT !.state.trackProgress = tp,
                       !.state.velocity = [x |-> 0, y |-> m.vy],
                       !.state.yaw = m.yaw,
                       !.state.throttle = m.throttle,
                       !.state.hasCrossedStartLine = l.crossed,
                       !.lap = l.lap,
                       !.finished = l.finished,
                       !.finishTime = l.finishTime] :
        tp \in {PLAYER_START_T, 998, 2},
        m \in { [vy |-> 0, yaw |-> 0, throttle |-> 0],
                [vy |-> 80000, yaw |-> 0, throttle |-> 1000],
                [vy |-> -30000, yaw |-> PI, throttle |-> 1000],
                [vy |-> -1300, yaw |-> PI, throttle |-> 0] },
        l \in { [crossed |-> FALSE, lap |-> 0, finished |-> FALSE, finishTime |-> 0],
                [crossed |-> TRUE, lap |-> 1, finished |-> FALSE, finishTime |-> 0],
                [crossed |-> TRUE, lap |-> 5, finished |-> FALSE, finishTime |-> 0],
                [crossed |-> TRUE, lap |-> 6, finished |-> TRUE, finishTime |-> -50],
                [crossed |-> FALSE, lap |-> 6, finished |-> TRUE, finishTime |-> -50] } }

\* crafts near a wall, drifting or thrusting sideways
WallShips ==
    { [PhysBase EXCEPT !.state.trackProgress = 500,
                       !.state.lateralPosition = lat,
                       !.state.velocity = [x |-> m.vx, y |-> 0],
                       !.state.yaw = m.yaw,
                       !.state.throttle = m.throttle,
                       !.state.hasCrossedStartLine = TRUE,
                       !.lap = 1] :
        lat \in {54000, 59900, -59900},
        m \in { [vx |-> 3000, yaw |-> 0, throttle |-> 0],
                [vx |-> -3000, yaw |-> 0, throttle |-> 0],
                [vx |-> 70000, yaw |-> -15708, throttle |-> 1000] } }

\* crafts on, beside and off the boost pads, with a boost running or not
BoostShips ==
    { [PhysBase EXCEPT !.state.trackProgress = at.tp,
                       !.state.lateralPosition = at.lat,
                       !.state.velocity = [x |-> 0, y |-> 4000],
                       !.state.boostTimer = bt,
                       !.state.hasCrossedStartLine = TRUE,
                       !.lap = 1] :
        at \in { [tp |-> 150, lat |-> 0], [tp |-> 141, lat |-> 19000],
                 [tp |-> 160, lat |-> 0], [tp |-> 150, lat |-> 25000],
                 [tp |-> 350, lat |-> -30000], [tp |-> 500, lat |-> 0] },
        bt \in {0, 2, 150, BOOST_DURATION} }

\* crafts coming down after a jump, at and below the hover height
GroundShips ==
    { [PhysBase EXCEPT !.state.trackProgress = 500,
                       !.state.verticalPosition = at.vp,
                       !.state.verticalVelocity = at.vv,
                       !.state.hasCrossedStartLine = TRUE,
                       !.lap = 1] :
        at \in { [vp |-> 2000, vv |-> -300], [vp |-> 1600, vv |-> -300],
                 [vp |-> 2000, vv |-> -100], [vp |-> 1600, vv |-> -25] } }

PhysShips == WrapShips \cup WallShips \cup BoostShips \cup GroundShips

\* the variables of Game.tsx at rest
GameIdle ==
    /\ controllers = << >>
    /\ keys = {}
    /\ raceStarted = TRUE
    /\ raceFinished = FALSE
    /\ allFinished = FALSE
    /\ raceState = "racing"
    /\ now = 0
    /\ countdownStart = 0
    /\ raceStartTime = 0
    /\ trackIndex = 0
    /\ ranking = << >>
    /\ results = << >>
    /\ resultsCount = 0
    /\ lapHud = 0
    /\ lastDt = 0
    /\ roster = << >>
    /\ keyEvents = 0
    /\ ticks = 0
    /\ defaultVelocity = INITIAL_GAME_STATE.velocity
    /\ actor = -1
    /\ frame = NoFrame
    /\ travel = 0

InitPhys ==
    /\ ships \in { [i \in {0} |-> s] : s \in PhysShips }
    /\ prev = ships
    /\ lastAction = "mount"
    /\ emitted = [i \in {0} |-> "NONE"]
    /\ forwarded = [i \in {0} |-> "NONE"]
    /\ GameIdle

\* one call of Ship.update on the craft, holding the keys ks
Step(dt, ks) ==
    /\ ticks < PhysSteps
    /\ \E r \in {shipUpdate(ships[0], dt, ks, PhysTrackLength, raceStarted, now + dt)} :
          /\ ships' = [i \in {0} |-> r.ship]
          /\ defaultVelocity' = defaultSeen(ships', defaultVelocity)
          /\ emitted' = [i \in {0} |-> r.msg]
          /\ forwarded' = [i \in {0} |-> r.fwd]
    /\ keys' = ks
    /\ now' = now + dt
    /\ lastDt' = dt
    /\ prev' = ships
    /\ lastAction' = "frame"
    /\ ticks' = ticks + 1
    /\ actor' = 0
    /\ UNCHANGED << frame, travel, controllers, raceStarted, raceFinished, allFinished, raceState,
                    countdownStart, raceStartTime, trackIndex, ranking, results,
                    resultsCount, lapHud, roster, keyEvents >>

NextPhys == \E dt \in DtSet : \E ks \in PhysInputs : Step(dt, ks)

SpecPhys == InitPhys /\ [][NextPhys]_vars

----------------------------------------------------------------------------
(* The ranking pass of animate on sampled crafts *)

RankSize == 3

\* finished crafts (lap 6) with their finish times, unfinished crafts with lap and progress
RankShips ==
    { [PhysBase EXCEPT !.lap = 6, !.finished = TRUE, !.finishTime = ft,
                       !.state.trackProgress = 100, !.state.hasCrossedStartLine = TRUE] :
        ft \in {90, 100} }
    \cup
    { [PhysBase EXCEPT !.lap = at.lap, !.state.trackProgress = at.tp,
                       !.state.hasCrossedStartLine = (at.lap > 0)] :
        at \in { [lap |-> 3, tp |-> 400], [lap |-> 3, tp |-> 900],
                 [lap |-> 2, tp |-> 950], [lap |-> 0, tp |-> PLAYER_START_T] } }

InitRank ==
    /\ ships \in [0 .. RankSize - 1 -> RankShips]
    /\ prev = ships
    /\ lastAction = "mount"
    /\ emitted = [i \in DOMAIN ships |-> "NONE"]
    /\ forwarded = [i \in DOMAIN ships |-> "NONE"]
    /\ GameIdle

\* lines 420-440 of animate: the sort of allShips
RankPass ==
    /\ lastAction = "mount"
    /\ ranking' = sortShips(ships, allShipIds(ships))
    /\ prev' = ships
    /\ lastAction' = "rank"
    /\ UNCHANGED << frame, travel, ships, controllers, keys, raceStarted, raceFinished, allFinished,
                    raceState, now, countdownStart, raceStartTime, trackIndex, results,
                    resultsCount, lapHud, emitted, forwarded, lastDt, roster, keyEvents,
                    ticks, defaultVelocity, actor >>

SpecRank == InitRank /\ [][RankPass]_vars

----------------------------------------------------------------------------
(* The crafts of a race stepped and reset one at a time *)

OwnSteps == 2

InitOwn ==
    /\ roster \in Rosters
    /\ defaultVelocity = INITIAL_GAME_STATE.velocity
    /\ ships = seenShips(mountShips(roster), defaultVelocity)
    /\ controllers \in [OppIds -> [targetLateral : TargetLaterals, keys : {{}}]]
    /\ keys = {}
    /\ raceStarted \in BOOLEAN
    /\ raceFinished = FALSE
    /\ allFinished = FALSE
    /\ raceState = (IF raceStarted THEN "racing" ELSE "intro")
    /\ now = 0
    /\ countdownStart = 0
    /\ raceStartTime = 0
    /\ trackIndex = 0
    /\ ranking = << >>
    /\ results = << >>
    /\ resultsCount = 0
    /\ lapHud = 0
    /\ emitted = NoMessages
    /\ forwarded = NoMessages
    /\ lastDt = 0
    /\ prev = ships
    /\ lastAction = "mount"
    /\ keyEvents = 0
    /\ ticks = 0
    /\ actor = -1
    /\ frame = NoFrame
    /\ travel = 0

\* one call of Ship.update on craft i alone: the player's (Game.tsx line 389) with the
\* keys held, an opponent's (OpponentManager.update, one turn of its loop) with its
\* controller's decision, which is made only once the race has started
StepCraft(i, dt) ==
    /\ ticks < OwnSteps
    /\ i = 0 \/ raceStarted
    /\ \E ks \in (IF i = 0 THEN PhysInputs
                   ELSE {aiDecide(controllers[i], ships[i].state).keys}) :
       \E r \in {shipUpdate(ships[i], dt, ks, PhysTrackLength, raceStarted, now)} :
          /\ ships' = writeBack(ships, i, r.ship)
          /\ emitted' = [NoMessages EXCEPT ![i] = r.msg]
          /\ forwarded' = [NoMessages EXCEPT ![i] = r.fwd]
          /\ keys' = (IF i = 0 THEN ks ELSE keys)
          /\ controllers' = (IF i = 0 THEN controllers
                             ELSE [controllers EXCEPT ![i].keys = ks])
    /\ defaultVelocity' = defaultSeen(ships', defaultVelocity)
    /\ lastDt' = dt
    /\ prev' = ships
    /\ lastAction' = "step"
    /\ actor' = i
    /\ ticks' = ticks + 1
    /\ UNCHANGED << frame, travel, raceStarted, raceFinished, allFinished, raceState, now,
                    countdownStart, raceStartTime, trackIndex, ranking, results,
                    resultsCount, lapHud, roster, keyEvents >>

\* the pre-start reset of the player (Game.tsx lines 309-311): velocity.set(0, 0) and
\* throttle = 0
ResetPlayer ==
    /\ ~raceStarted
    /\ ships' = writeBack(ships, 0, [ships[0] EXCEPT !.state.velocity = [x |-> 0, y |-> 0],
                                                     !.state.throttle = 0])
    /\ defaultVelocity' = defaultSeen(ships', defaultVelocity)
    /\ prev' = ships
    /\ lastAction' = "reset"
    /\ actor' = 0
    /\ emitted' = NoMessages
    /\ forwarded' = NoMessages
    /\ lastDt' = 0
    /\ UNCHANGED << frame, travel, controllers, keys, raceStarted, raceFinished, allFinished, raceState,
                    now, countdownStart, raceStartTime, trackIndex, ranking, results,
                    resultsCount, lapHud, roster, keyEvents, ticks >>

\* bounds of the decisions: the steps are counted by OwnSteps
AiLaterals == {5000, 500, 1000, 1001, -1000, -1001, -5000, 25000}

\* randomLane of spawnOpponents, (Math.random() - 0.5) * 60
AiTargets == {0, -20000, 20000}

\* opponents of a started race at rest on the sampled lateral positions, each with a
\* new controller
InitAi ==
    /\ roster \in Rosters
    /\ defaultVelocity = INITIAL_GAME_STATE.velocity
    /\ \E lat \in AiLaterals :
          ships = [i \in ShipIds |->
                     IF i = 0 THEN mountShips(roster)[0]
                     ELSE [mountShips(roster)[i] EXCEPT !.state.lateralPosition = lat,
                                                        !.state.trackProgress = 500,
                                                        !.state.hasCrossedStartLine = TRUE,
                                                        !.lap = 1]]
    /\ \E t \in AiTargets :
          controllers = [i \in OppIds |-> [targetLateral |-> t, keys |-> {}]]
    /\ keys = {}
    /\ raceStarted = TRUE
    /\ raceFinished = FALSE
    /\ allFinished = FALSE
    /\ raceState = "racing"
    /\ now = 0
    /\ countdownStart = 0
    /\ raceStartTime = 0
    /\ trackIndex = 0
    /\ ranking = << >>
    /\ results = << >>
    /\ resultsCount = 0
    /\ lapHud = 0
    /\ emitted = NoMessages
    /\ forwarded = NoMessages
    /\ lastDt = 0
    /\ prev = ships
    /\ lastAction = "mount"
    /\ keyEvents = 0
    /\ ticks = 0
    /\ actor = -1
    /\ frame = NoFrame
    /\ travel = 0

\* turns of the loop of OpponentManager.update: decision, then Ship.update
NextAi == \E i \in OppIds : \E dt \in DtSet : StepCraft(i, dt)

SpecAi == InitAi /\ [][NextAi]_vars

NextOwn ==
    \/ \E i \in ShipIds : \E dt \in DtSet : StepCraft(i, dt)
    \/ ResetPlayer

SpecOwn == InitOwn /\ [][NextOwn]_vars

----------------------------------------------------------------------------
(* Two crafts in the same state, one stepped once with 2 * dt, one twice with dt *)

\* how far apart two results of the fixed-point arithmetic may be and count as equal,
\* in thousandths of a velocity unit and ten-thousandths of a radian
TwinTolerance == 20

\* crafts away from the walls and the pads: at rest, at speed, drifting, reversing;
\* nose straight or turned; engine off or at full throttle; boosted or not
TwinShips ==
    { [PhysBase EXCEPT !.state.trackProgress = 500,
                       !.state.velocity = v,
                       !.state.yaw = yaw,
                       !.state.throttle = throttle,
                       !.state.boostTimer = bt,
                       !.state.hasCrossedStartLine = TRUE,
                       !.lap = 1] :
        v \in { [x |-> 0, y |-> 0], [x |-> 0, y |-> 80000],
                [x |-> 3000, y |-> 40000], [x |-> -2000, y |-> -30000] },
        yaw \in {0, 3000, -12000},
        throttle \in {0, M},
        bt \in {0, 150} }

TwinInputs == { {}, {"w"}, {"d"}, {"w", "q"} }

InitTwin ==
    /\ ships \in { [i \in {0, 1} |-> s] : s \in TwinShips }
    /\ prev = ships
    /\ lastAction = "mount"
    /\ emitted = [i \in {0, 1} |-> "NONE"]
    /\ forwarded = [i \in {0, 1} |-> "NONE"]
    /\ GameIdle

\* craft 0 takes one Ship.update with 2 * dt, craft 1 two with dt, holding the keys ks
TwinStep(dt, ks) ==
    /\ ticks = 0
    /\ \E once \in {shipUpdate(ships[0], 2 * dt, ks, PhysTrackLength, raceStarted, now)} :
       \E half \in {shipUpdate(ships[1], dt, ks, PhysTrackLength, raceStarted, now)} :
       \E twice \in {shipUpdate(half.ship, dt, ks, PhysTrackLength, raceStarted, now)} :
          /\ ships' = [i \in {0, 1} |-> IF i = 0 THEN once.ship ELSE twice.ship]
          /\ emitted' = [i \in {0, 1} |-> IF i = 0 THEN once.msg ELSE twice.msg]
          /\ forwarded' = [i \in {0, 1} |-> IF i = 0 THEN once.fwd ELSE twice.fwd]
    /\ keys' = ks
    /\ lastDt' = dt
    /\ prev' = ships
    /\ lastAction' = "twin"
    /\ ticks' = ticks + 1
    /\ UNCHANGED << frame, travel, controllers, raceStarted, raceFinished, allFinished, raceState, now,
                    countdownStart, raceStartTime, trackIndex, ranking, results,
                    resultsCount, lapHud, roster, keyEvents, defaultVelocity, actor >>

\* pairs of opposite inputs: steer left and right, strafe left and right
OppositePairs == { {"q", "e"}, {"a", "d"}, {"ArrowLeft", "ArrowRight"} }

\* both crafts take one Ship.update with dt; craft 0 holds the keys ks and the opposite
\* inputs pair, craft 1 holds the keys ks
PairStep(dt, ks, pair) ==
    /\ ticks = 0
    /\ ks \cap pair = {}
    /\ \E both \in {shipUpdate(ships[0], dt, ks \cup pair, PhysTrackLength, raceStarted, now)} :
       \E none \in {shipUpdate(ships[1], dt, ks, PhysTrackLength, raceStarted, now)} :
          /\ ships' = [i \in {0, 1} |-> IF i = 0 THEN both.ship ELSE none.ship]
          /\ emitted' = [i \in {0, 1} |-> IF i = 0 THEN both.msg ELSE none.msg]
          /\ forwarded' = [i \in {0, 1} |-> IF i = 0 THEN both.fwd ELSE none.fwd]
    /\ keys' = ks \cup pair
    /\ lastDt' = dt
    /\ prev' = ships
    /\ lastAction' = "pair"
    /\ ticks' = ticks + 1
    /\ UNCHANGED << frame, travel, controllers, raceStarted, raceFinished, allFinished, raceState, now,
                    countdownStart, raceStartTime, trackIndex, ranking, results,
                    resultsCount, lapHud, roster, keyEvents, defaultVelocity, actor >>

NextTwin ==
    \/ \E dt \in {d \in DtSet : 2 * d <= DT_CAP} : \E ks \in TwinInputs : TwinStep(dt, ks)
    \/ \E dt \in DtSet : \E ks \in { {}, {"w"} } : \E pair \in OppositePairs :
          PairStep(dt, ks, pair)

SpecTwin == InitTwin /\ [][NextTwin]_vars

----------------------------------------------------------------------------
(* getTrackFrame on sampled closed tracks *)

\* how far a length may be from 1 and a dot product from 0, in ten-thousandths: the
\* rounding of the fixed-point arithmetic
FrameTolerance == 10

\* a flat circuit of four straights joined by right-hand corners of two 45 degree bends
CornerTrack ==
    << <<0, 0, -1>>, <<0, 0, -1>>, <<0, 0, -1>>, <<0, 0, -1>>, <<1, 0, -1>>,
       <<1, 0, 0>>, <<1, 0, 0>>, <<1, 0, 0>>, <<1, 0, 0>>, <<1, 0, 1>>,
       <<0, 0, 1>>, <<0, 0, 1>>, <<0, 0, 1>>, <<0, 0, 1>>, <<0, 0, 1>>,
       <<-1, 0, 1>>, <<-1, 0, 0>>, <<-1, 0, 0>>, <<-1, 0, 0>>, <<-1, 0, 0>>,
       <<-1, 0, -1>>, <<0, 0, -1>>, <<0, 0, -1>>, <<0, 0, -1>>, <<0, 0, -1>> >>

\* a circuit with gentle bends, left-hand corners, a vertical climb and a vertical drop
ClimbTrack ==
    << <<0, 0, -1>>, <<0, 0, -1>>, <<-1, 0, -10>>, <<-2, 0, -10>>, <<-1, 0, -1>>,
       <<-1, 0, 0>>, <<-1, 0, 0>>, <<-1, 0, 0>>, <<-1, 0, 1>>, <<0, 0, 1>>,
       <<0, 1, 0>>, <<0, 1, 0>>, <<0, 0, 1>>, <<0, 0, 1>>, <<0, -1, 0>>,
       <<0, 0, 1>>, <<1, 0, 1>>, <<1, 0, 0>>, <<1, 0, 0>>, <<1, 0, 0>>,
       <<1, 0, 0>>, <<1, 0, -1>>, <<1, 0, -3>>, <<0, 0, -1>>, <<0, 0, -1>> >>

\* a round circuit that rises and falls along its way
HelixTrack ==
    << <<0, 0, -10>>, <<2, 2, -10>>, <<5, 4, -9>>, <<7, 2, -7>>, <<8, 0, -5>>,
       <<10, -2, -3>>, <<10, -4, -1>>, <<10, -2, 2>>, <<9, 0, 4>>, <<8, 2, 6>>,
       <<6, 4, 8>>, <<4, 2, 9>>, <<1, 0, 10>>, <<-1, -2, 10>>, <<-4, -4, 9>>,
       <<-6, -2, 8>>, <<-8, 0, 6>>, <<-9, 2, 4>>, <<-10, 4, 2>>, <<-10, 2, -1>>,
       <<-10, 0, -3>>, <<-8, -2, -5>>, <<-7, -4, -7>>, <<-5, -2, -9>>, <<-2, 0, -10>> >>

\* an oval of two long straights, each with a slight kink, joined by tight bends
OvalTrack ==
    << <<0, 0, -1>>, <<0, 0, -1>>, <<0, 0, -1>>, <<0, 0, -1>>, <<1, 0, -20>>,
       <<0, 0, -1>>, <<0, 0, -1>>, <<0, 0, -1>>, <<0, 0, -1>>, <<1, 0, -1>>,
       <<1, 0, 0>>, <<1, 0, 1>>, <<0, 0, 1>>, <<0, 0, 1>>, <<0, 0, 1>>,
       <<0, 0, 1>>, <<-1, 0, 20>>, <<0, 0, 1>>, <<0, 0, 1>>, <<0, 0, 1>>,
       <<0, 0, 1>>, <<-1, 0, 1>>, <<-1, 0, 0>>, <<-1, 0, -1>>, <<0, 0, -1>> >>

Tracks == {CornerTrack, ClimbTrack, HelixTrack, OvalTrack}

InitFrame ==
    /\ frame \in { [NoFrame EXCEPT !.track = track, !.t = k * sampleOffset] :
                     track \in Tracks, k \in 0 .. GridSize - 1 }
    /\ ships = << >>
    /\ prev = ships
    /\ lastAction = "mount"
    /\ emitted = << >>
    /\ forwarded = << >>
    /\ controllers = << >>
    /\ keys = {}
    /\ raceStarted = FALSE
    /\ raceFinished = FALSE
    /\ allFinished = FALSE
    /\ raceState = "intro"
    /\ now = 0
    /\ countdownStart = 0
    /\ raceStartTime = 0
    /\ trackIndex = 0
    /\ ranking = << >>
    /\ results = << >>
    /\ resultsCount = 0
    /\ lapHud = 0
    /\ lastDt = 0
    /\ roster = << >>
    /\ keyEvents = 0
    /\ ticks = 0
    /\ defaultVelocity = INITIAL_GAME_STATE.velocity
    /\ actor = -1
    /\ travel = 0

\* one call of getTrackFrame(trackCurve, t)
ComputeFrame ==
    /\ ~frame.computed
    /\ frame' = getTrackFrame(frame.track, frame.t)
    /\ lastAction' = "getTrackFrame"
    /\ UNCHANGED << ships, controllers, keys, raceStarted, raceFinished, allFinished,
                    raceState, now, countdownStart, raceStartTime, trackIndex, ranking,
                    results, resultsCount, lapHud, emitted, forwarded, lastDt, prev,
                    roster, keyEvents, ticks, defaultVelocity, actor, travel >>

SpecFrame == InitFrame /\ [][ComputeFrame]_vars

----------------------------------------------------------------------------
(* A craft that has come back to the start line after its last lap event *)

LoopSteps == 3

\* crafts on lap 1 a little past the start line, nose straight, coasting backward or
\* forward; the engine off or at full throttle
LoopShips ==
    { [PhysBase EXCEPT !.state.trackProgress = tp,
                       !.state.velocity = [x |-> 0, y |-> vy],
                       !.state.throttle = throttle,
                       !.state.hasCrossedStartLine = TRUE,
                       !.lap = 1] :
        tp \in {2, 4, 10}, vy \in {-800, -1300, 3000}, throttle \in {0, M} }

\* the craft has net forward travel trackProgress since the lap event at the line
InitLoop ==
    /\ ships \in { [i \in {0} |-> s] : s \in LoopShips }
    /\ prev = ships
    /\ lastAction = "mount"
    /\ emitted = [i \in {0} |-> "NONE"]
    /\ forwarded = [i \in {0} |-> "NONE"]
    /\ controllers = << >>
    /\ keys = {}
    /\ raceStarted = TRUE
    /\ raceFinished = FALSE
    /\ allFinished = FALSE
    /\ raceState = "racing"
    /\ now = 0
    /\ countdownStart = 0
    /\ raceStartTime = 0
    /\ trackIndex = 0
    /\ ranking = << >>
    /\ results = << >>
    /\ resultsCount = 0
    /\ lapHud = 0
    /\ lastDt = 0
    /\ roster = << >>
    /\ keyEvents = 0
    /\ ticks = 0
    /\ defaultVelocity = INITIAL_GAME_STATE.velocity
    /\ actor = -1
    /\ frame = NoFrame
    /\ travel = ships[0].state.trackProgress

\* one call of Ship.update on the craft, holding the keys ks; travel counts the
\* progressChange of the steps since the step of the last lap event
LoopStep(dt, ks) ==
    /\ ticks < LoopSteps
    /\ \E r \in {shipUpdate(ships[0], dt, ks, PhysTrackLength, raceStarted, now + dt)} :
          /\ ships' = [i \in {0} |-> r.ship]
          /\ emitted' = [i \in {0} |-> r.msg]
          /\ forwarded' = [i \in {0} |-> r.fwd]
          /\ travel' = (IF emitted[0] # "NONE" THEN 0 ELSE travel)
                          + TDiv(r.ship.state.velocity.y * dt, PhysTrackLength)
    /\ keys' = ks
    /\ now' = now + dt
    /\ lastDt' = dt
    /\ prev' = ships
    /\ lastAction' = "loop"
    /\ ticks' = ticks + 1
    /\ actor' = 0
    /\ UNCHANGED << controllers, raceStarted, raceFinished, allFinished, raceState,
                    countdownStart, raceStartTime, trackIndex, ranking, results,
                    resultsCount, lapHud, roster, keyEvents, defaultVelocity, frame >>

NextLoop == \E dt \in DtSet : \E ks \in { {}, {"w"} } : LoopStep(dt, ks)

SpecLoop == InitLoop /\ [][NextLoop]_vars

----------------------------------------------------------------------------
(* A craft at a wall that holds strafe away from it, under continued ticks *)

\* crafts of a started race that drift or steer toward a wall, the engine off, and
\* crafts that stand at the clamp position
PinShips ==
    { [PhysBase EXCEPT !.state.trackProgress = 500,
                       !.state.lateralPosition = at.lat,
                       !.state.velocity = [x |-> at.vx, y |-> 0],
                       !.state.yaw = at.yaw,
                       !.state.hasCrossedStartLine = TRUE,
                       !.lap = 1] :
        at \in { [lat |-> 58000, vx |-> 3000, yaw |-> 0],
                 [lat |-> 58000, vx |-> 6000, yaw |-> 0],
                 [lat |-> 50000, vx |-> 12000, yaw |-> 0],
                 [lat |-> -58000, vx |-> -3000, yaw |-> 0],
                 [lat |-> -50000, vx |-> -12000, yaw |-> 0],
                 [lat |-> 57000, vx |-> 5000, yaw |-> -3000],
                 [lat |-> 59900, vx |-> 0, yaw |-> 0],
                 [lat |-> -59900, vx |-> 0, yaw |-> 0] } }

InitPin ==
    /\ ships \in { [i \in {0} |-> s] : s \in PinShips }
    /\ prev = ships
    /\ lastAction = "mount"
    /\ emitted = [i \in {0} |-> "NONE"]
    /\ forwarded = [i \in {0} |-> "NONE"]
    /\ GameIdle

\* one call of Ship.update on the craft, which holds the strafe key that points away
\* from the wall of its side and no other key. The frames of a run have the same dt,
\* and the run is followed until the craft is back within the soft-wall limit.
PinStep(dt) ==
    /\ lastDt \in {0, dt}
    /\ lastAction = "mount" \/ Abs(ships[0].state.lateralPosition) >= softWallLimit
    /\ \E ks \in {IF ships[0].state.lateralPosition > 0 THEN {"a"} ELSE {"d"}} :
       \E r \in {shipUpdate(ships[0], dt, ks, PhysTrackLength, raceStarted, now)} :
          /\ ships' = [i \in {0} |-> r.ship]
          /\ emitted' = [i \in {0} |-> r.msg]
          /\ forwarded' = [i \in {0} |-> r.fwd]
          /\ keys' = ks
    /\ lastDt' = dt
    /\ prev' = ships
    /\ lastAction' = "frame"
    /\ actor' = 0
    /\ UNCHANGED << controllers, raceStarted, raceFinished, allFinished, raceState, now,
                    countdownStart, raceStartTime, trackIndex, ranking, results,
                    resultsCount, lapHud, roster, keyEvents, ticks, defaultVelocity,
                    frame, travel >>

\* the steps of the runs: with dt = 4 the velocity of a craft held by the clamp grows
\* from frame to frame without bound
PinDts == {1, 2}

NextPin == \E dt \in PinDts : PinStep(dt)

\* requestAnimationFrame keeps calling animate: the steps go on
SpecPin == InitPin /\ [][NextPin]_vars /\ WF_vars(NextPin)

----------------------------------------------------------------------------
(* Properties *)

\* the craft's progress delta of the step just taken: velocity.y * dt / trackLength
progressDelta(i, trackLength) ==
    TDiv(ships[i].state.velocity.y * lastDt, trackLength)

\* the place of craft i in the ranking
rankOf(i) == CHOOSE p \in 1 .. Len(ranking) : ranking[p] = i

\* C1: for a craft that has not finished, the step in which it first crosses the start
\* line emits the message 1 and leaves lap = 1; every later overflow emits "INCREMENT"
\* and raises lap by exactly one.
C1_LapEvents ==
    lastAction = "frame" =>
        \A i \in DOMAIN ships :
            ~prev[i].finished =>
                /\ (~prev[i].state.hasCrossedStartLine /\ ships[i].state.hasCrossedStartLine)
                      => (emitted[i] = "1" /\ prev[i].lap = 0 /\ ships[i].lap = 1)
                /\ (prev[i].state.hasCrossedStartLine /\ emitted[i] # "NONE")
                      => (emitted[i] = "INCREMENT" /\ ships[i].lap = prev[i].lap + 1)
                /\ emitted[i] = "NONE" => ships[i].lap = prev[i].lap

\* a craft's second crossing: "INCREMENT" took it from lap 1 to lap 2
C1_SecondCrossing ==
    /\ lastAction = "frame"
    /\ \E i \in DOMAIN ships :
          emitted[i] = "INCREMENT" /\ prev[i].lap = 1 /\ ships[i].lap = 2

\* C2: within one race a craft that is finished stays finished and keeps its finishTime,
\* under ticks and the F and G keys.
C2_FinishLatched ==
    lastAction # "mount" =>
        \A i \in DOMAIN ships :
            prev[i].finished =>
                ships[i].finished /\ ships[i].finishTime = prev[i].finishTime

\* C3: lap is in 0..6, a craft is finished iff its lap is above 5, and a tick finishes
\* a craft exactly when its lap event raises the lap from 5 to 6.
C3_FinishedIffLapAboveFive ==
    \A i \in DOMAIN ships :
        /\ ships[i].lap \in 0 .. TOTAL_LAPS + 1
        /\ ships[i].finished <=> ships[i].lap > TOTAL_LAPS
        /\ (lastAction = "frame" /\ ~prev[i].finished) =>
              (ships[i].finished <=>
                  (forwarded[i] = "INCREMENT" /\ prev[i].lap = TOTAL_LAPS))

\* a craft finishes on its sixth lap event while another craft is still racing
C3_FinishesAtSixthLap ==
    /\ lastAction = "frame"
    /\ \E i, j \in DOMAIN ships :
          /\ ~prev[i].finished /\ ships[i].finished /\ ships[i].lap = TOTAL_LAPS + 1
          /\ ~ships[j].finished

\* C4: after every step 0 <= trackProgress < 1.
C4_ProgressInUnitInterval ==
    \A i \in DOMAIN ships :
        ships[i].state.trackProgress >= 0 /\ ships[i].state.trackProgress < PU

\* C5: a step emits a lap event exactly when trackProgress plus the step's progress
\* delta reaches 1.0, and never more than one; a backward underflow emits none.
C5_OneEventOnOverflow ==
    lastAction = "frame" =>
        LET sum == Dbl(prev[0].state.trackProgress + progressDelta(0, PhysTrackLength))
        IN  /\ emitted[0] \in {"NONE", "1", "INCREMENT"}
            /\ emitted[0] # "NONE" <=> sum >= PU
            /\ sum < 0 => emitted[0] = "NONE"

\* from trackProgress 0.998 at speed the step wraps and emits one event
C5_OverflowEmits ==
    /\ lastAction = "frame"
    /\ prev[0].state.trackProgress = 998
    /\ emitted[0] # "NONE"
    /\ ships[0].state.trackProgress < prev[0].state.trackProgress

\* C6: after each step |lateralPosition| <= visualWallLimit, whatever the input.
C6_LateralWithinWalls ==
    \A i \in DOMAIN ships : Abs(ships[i].state.lateralPosition) <= visualWallLimit

\* strafing right at the wall, the step left the craft on the hard clamp
C6_ClampedAtWall ==
    /\ lastAction = "frame"
    /\ "d" \in keys
    /\ prev[0].state.lateralPosition = 54000
    /\ ships[0].state.lateralPosition = visualWallLimit - 100

\* C7: boostTimer >= 0 in every reachable state.
C7_BoostTimerNonNegative ==
    \A i \in DOMAIN ships : ships[i].state.boostTimer >= 0

\* C8: a step that finds the craft on a pad leaves boostTimer = 5.0 whatever it was,
\* and boostTimer never exceeds 5.0.
C8_PadSetsFiveSeconds ==
    \A i \in DOMAIN ships :
        /\ ships[i].state.boostTimer <= BOOST_DURATION
        /\ (lastAction = "frame" /\ InAnyPad(prev[i].state))
              => ships[i].state.boostTimer = BOOST_DURATION

\* a craft on a pad with half its boost left is set back to 5.0
C8_RearmedOnPad ==
    /\ lastAction = "frame"
    /\ InAnyPad(prev[0].state)
    /\ prev[0].state.boostTimer = 150
    /\ ships[0].state.boostTimer = BOOST_DURATION

\* C9: the ranking holds every craft once, finished crafts before unfinished ones,
\* finished crafts by ascending finishTime, unfinished crafts by descending
\* lap + trackProgress; A finished at 100, B finished at 90, C unfinished at 3.4
\* rank B, A, C.
C9_RankingOrder ==
    lastAction = "rank" =>
        /\ Len(ranking) = Cardinality(DOMAIN ships)
        /\ \A i \in DOMAIN ships : \E p \in 1 .. Len(ranking) : ranking[p] = i
        /\ \A p, q \in 1 .. Len(ranking) :
              p < q =>
                 LET a == ships[ranking[p]]
                     b == ships[ranking[q]]
                 IN  /\ b.finished => a.finished
                     /\ (a.finished /\ b.finished) => a.finishTime <= b.finishTime
                     /\ (~a.finished /\ ~b.finished) =>
                           a.lap * PU + a.state.trackProgress
                              >= b.lap * PU + b.state.trackProgress
        /\ ( /\ ships[0].finished /\ ships[0].finishTime = 100
             /\ ships[1].finished /\ ships[1].finishTime = 90
             /\ ~ships[2].finished /\ ships[2].lap = 3
             /\ ships[2].state.trackProgress = 400 )
              => (rankOf(1) < rankOf(0) /\ rankOf(0) < rankOf(2))

\* the example of three crafts, ranked
C9_ExampleRanked ==
    /\ lastAction = "rank"
    /\ ships[0].finished /\ ships[0].finishTime = 100
    /\ ships[1].finished /\ ships[1].finishTime = 90
    /\ ~ships[2].finished /\ ships[2].lap = 3 /\ ships[2].state.trackProgress = 400
    /\ SubSeq(ranking, 1, 3) = << 1, 0, 2 >>

gridProgress(i) == IF i = 0 THEN PLAYER_START_T ELSE (930 + (((i - 1) \div 2) + 1) * 2) % PU

C12_FreshRace ==
    lastAction = "mount" =>
        /\ ~raceStarted /\ ~raceFinished /\ ~allFinished
        /\ \A i \in DOMAIN ships :
              /\ ships[i].lap = 0
              /\ ~ships[i].finished
              /\ ships[i].finishTime = 0
              /\ ~ships[i].state.hasCrossedStartLine
              /\ ships[i].state.velocity = [x |-> 0, y |-> 0]
              /\ ships[i].state.throttle = 0
              /\ ships[i].state.boostTimer = 0
              /\ ships[i].state.trackProgress = gridProgress(i)
              /\ ships[i].state.yaw = 0

\* the next race mounted after a race in which the crafts finished at speed
C12_NextRaceMounted ==
    /\ lastAction = "mount"
    /\ trackIndex = NUM_TRACKS - 1
    /\ \A i \in DOMAIN prev : prev[i].finished
    /\ \E i \in DOMAIN prev :
          /\ prev[i].state.velocity.y > 0
          /\ prev[i].state.hasCrossedStartLine
          /\ prev[i].state.boostTimer # 0

\* C13: each craft's velocity is a Vector2 of its own, the velocity of
\* INITIAL_GAME_STATE stays (0, 0), and stepping or resetting one craft leaves every
\* field of every other craft as it was.
C13_ExclusiveOwnership ==
    /\ defaultVelocity = [x |-> 0, y |-> 0]
    /\ \A i \in DOMAIN ships : ships[i].state.velocityObject = "own"
    /\ actor \in DOMAIN ships =>
          /\ \A j \in DOMAIN ships \ {actor} : ships[j] = prev[j]
          /\ lastAction = "reset" =>
                ships[actor].state.velocity = [x |-> 0, y |-> 0]

\* an opponent stepped while the player is drifting sideways: the opponent gained
\* speed and the player's state is as it was
C13_OpponentSteppedAlone ==
    /\ lastAction = "step"
    /\ actor = 1
    /\ ships[1].state.velocity.y > 0
    /\ ships[0].state.velocity.x # 0
    /\ ships[0] = prev[0]

\* C14: the decision made for an opponent's turn holds the throttle keys, and with
\* error = lateralPosition - targetLateral holds exactly the left keys when error > 1.0,
\* exactly the right keys when error < -1.0 and no lateral key when |error| <= 1.0,
\* whatever the decision before held; the lateral key requested pushes the craft
\* toward the target. Target 0 and lateral 5.0 requests left, lateral 0.5 requests none.
C14_AiDecision ==
    (lastAction = "step" /\ actor \in DOMAIN controllers) =>
        LET before == prev[actor].state
            after  == ships[actor].state
            error  == before.lateralPosition - controllers[actor].targetLateral
            held   == controllers[actor].keys
        IN  /\ {"w", "ArrowUp"} \subseteq held
            /\ before.throttle < M => after.throttle > before.throttle
            /\ error > 1000 => held = {"w", "ArrowUp", "a", "ArrowLeft"}
            /\ error < -1000 => held = {"w", "ArrowUp", "d", "ArrowRight"}
            /\ (error <= 1000 /\ error >= -1000) => held = {"w", "ArrowUp"}
            /\ before.velocity.x = 0 =>
                  /\ error > 1000 => after.lateralPosition < before.lateralPosition
                  /\ error < -1000 => after.lateralPosition > before.lateralPosition
                  /\ (error <= 1000 /\ error >= -1000) =>
                        after.lateralPosition = before.lateralPosition
            /\ (controllers[actor].targetLateral = 0 /\ before.lateralPosition = 5000)
                  => ("a" \in held /\ "d" \notin held)
            /\ (controllers[actor].targetLateral = 0 /\ before.lateralPosition = 500)
                  => held \cap {"a", "ArrowLeft", "d", "ArrowRight"} = {}

\* a craft that was pushed left by its last decision has come within the deadzone, and
\* the new decision holds no lateral key
C14_DecisionInDeadzoneAfterLeft ==
    /\ lastAction = "step"
    /\ actor \in DOMAIN controllers
    /\ prev[actor].state.velocity.x < 0
    /\ prev[actor].state.lateralPosition - controllers[actor].targetLateral <= 1000
    /\ prev[actor].state.lateralPosition - controllers[actor].targetLateral >= 0
    /\ controllers[actor].keys = {"w", "ArrowUp"}

twinVelocitiesAgree ==
    /\ Abs(ships[0].state.velocity.x - ships[1].state.velocity.x) <= TwinTolerance
    /\ Abs(ships[0].state.velocity.y - ships[1].state.velocity.y) <= TwinTolerance

\* C16: the thrust a step adds is scaled by dt: at full throttle with the nose straight
\* and the forward key held, one step with 2 * dt leaves the velocity that two steps
\* with dt leave.
C16_ThrustScaledByDt ==
    ( /\ lastAction = "twin"
      /\ keys = {"w"}
      /\ prev[0].state.throttle = M
      /\ prev[0].state.yaw = 0 )
        => twinVelocitiesAgree

\* C17: with the engine off and no key held, one step with 2 * dt leaves the velocity
\* and the yaw that two steps with dt leave: friction, slide factor and yaw self-align
\* are raised to the power dt.
C17_DragExponentiated ==
    ( /\ lastAction = "twin"
      /\ keys = {}
      /\ prev[0].state.throttle = 0 )
        => /\ twinVelocitiesAgree
           /\ Abs(ships[0].state.yaw - ships[1].state.yaw) <= TwinTolerance

\* a drifting craft with the nose turned, engine off: both crafts slowed and
\* straightened
C17_DriftingCraftSlowed ==
    /\ lastAction = "twin"
    /\ keys = {}
    /\ lastDt = 1
    /\ prev[0].state.throttle = 0
    /\ prev[0].state.velocity = [x |-> 3000, y |-> 40000]
    /\ prev[0].state.yaw = -12000
    /\ ships[0].state.velocity.y < 40000
    /\ ships[1].state.velocity.y < 40000
    /\ ships[1].state.velocity.x < 3000
    /\ ships[1].state.yaw > -12000

\* C18: a step with both steer inputs held leaves the yaw that the step with neither
\* leaves, and a step with both strafe inputs held leaves the lateral velocity and
\* position that the step with neither leaves.
C18_OppositeInputsCancel ==
    lastAction = "pair" =>
        /\ {"q", "e"} \subseteq keys => ships[0].state.yaw = ships[1].state.yaw
        /\ ({"a", "d"} \subseteq keys \/ {"ArrowLeft", "ArrowRight"} \subseteq keys) =>
              /\ ships[0].state.velocity.x = ships[1].state.velocity.x
              /\ ships[0].state.lateralPosition = ships[1].state.lateralPosition

\* C19: within a race raceState only moves forward through intro, racing, finished,
\* results: racing is entered when the countdown elapses, finished when the player
\* finishes, results when every craft has finished, and results is left only by the
\* mount of the next race, which sets intro.
C19_RaceStateForward ==
    [][ LET order == [intro |-> 0, racing |-> 1, finished |-> 2, results |-> 3]
        IN  /\ lastAction' = "mount" => raceState' = "intro"
            /\ lastAction' # "mount" => order[raceState'] >= order[raceState]
            /\ (raceState' = "racing" /\ raceState # "racing")
                  => (~raceStarted /\ raceStarted')
            /\ (raceState' = "finished" /\ raceState # "finished")
                  => (ships'[0].finished /\ ~raceFinished /\ raceFinished')
            /\ (raceState' = "results" /\ raceState # "results")
                  => \A i \in DOMAIN ships' : ships'[i].finished ]_vars

\* verticalPosition of the step just taken as line 263 left it, before checkCollision
unclampedVertical ==
    move(thrust(steer(prev[0].state, keys, lastDt, raceStarted), keys, lastDt),
         PhysTrackLength, lastDt).state.verticalPosition

\* C20: after every step verticalPosition >= minHeight, and a step whose ground clamp
\* fired leaves verticalPosition = minHeight and verticalVelocity >= 0.
C20_GroundFloor ==
    /\ ships[0].state.verticalPosition >= minHeight
    /\ (lastAction = "frame" /\ unclampedVertical < minHeight) =>
          /\ ships[0].state.verticalPosition = minHeight
          /\ ships[0].state.verticalVelocity >= 0

\* a craft coming down fast was stopped on the floor
C20_LandedOnFloor ==
    /\ lastAction = "frame"
    /\ prev[0].state.verticalVelocity = -300
    /\ unclampedVertical < minHeight
    /\ ships[0].state.verticalPosition = minHeight
    /\ ships[0].state.verticalVelocity = 0

C22_BankBounded ==
    frame.computed =>
        /\ Abs(frame.bankAngle) <= maxBank
        /\ Abs(frame.rawBank) <= deadzone => frame.bankAngle = 0

\* a frame in a tight corner: the raw bank angle was beyond pi/3 and was clamped
C22_BankClamped ==
    /\ frame.computed
    /\ Abs(frame.rawBank) > maxBank
    /\ Abs(frame.bankAngle) = maxBank

\* the craft of the step just taken as line 263 left it, before checkCollision
movedState ==
    move(thrust(steer(prev[0].state, keys, lastDt, raceStarted), keys, lastDt),
         PhysTrackLength, lastDt).state

\* the hard clamp of lines 309-313 fired in the step just taken
hardClampFired ==
    lastAction = "frame" /\ Abs(movedState.lateralPosition) > visualWallLimit

\* C23: a step whose lateral update leaves |lateralPosition| > 60 ends with
\* lateralPosition = sign * 59.9 and with the lateral velocity the craft crossed the hard
\* limit with, multiplied by -0.2.
C23_HardClampReverses ==
    hardClampFired =>
        /\ ships[0].state.lateralPosition
              = Sign(movedState.lateralPosition) * (visualWallLimit - 100)
        /\ ships[0].state.velocity.x = MulDiv(movedState.velocity.x, -2, 10)

\* C28: after a step in which the hard clamp fired the lateral velocity does not point
\* into the wall the craft hit: sign(lateralPosition) * velocity.x <= 0.
C28_VelocityNotIntoWall ==
    hardClampFired =>
        Sign(ships[0].state.lateralPosition) * ships[0].state.velocity.x <= 0

\* C24: a step tests the boost pads on the trackProgress and lateralPosition the craft
\* had before the step moved it: boostTimer is 5.0 after the step iff the craft was
\* within length/2 and width/2 of some pad; the thrust of the step is boosted iff
\* boostTimer was above 0 before the step, so a pad boosts from the following step.
C24_PadPickup ==
    lastAction = "frame" =>
        LET before == prev[0].state
            after  == ships[0].state
            base   == MulDiv(after.throttle, before.accelFactor, M)
            power  == IF before.boostTimer > 0 THEN MulDiv(base, 135, 100) ELSE base
        IN  /\ after.boostTimer = BOOST_DURATION <=>
                  \E pad \in BOOST_PADS :
                     /\ 2 * Abs(before.trackProgress - pad.trackProgress) < pad.length
                     /\ 2 * Abs(before.lateralPosition - pad.lateralPosition) < pad.width
            /\ after.velocity.y
                  = MulDiv(before.velocity.y + MulDiv(Cos(after.yaw), power, U),
                           Pow(before.friction, lastDt), U)

\* a craft without boost on a pad, forward key held: the step picked the pad up, left
\* the pad behind and added the thrust without boost
C24_PickedUpUnboosted ==
    /\ lastAction = "frame"
    /\ "w" \in keys
    /\ prev[0].state.boostTimer = 0
    /\ InAnyPad(prev[0].state)
    /\ ~InAnyPad(ships[0].state)
    /\ ships[0].state.boostTimer = BOOST_DURATION
    /\ ships[0].state.throttle > 0

\* C25: a step of a finished craft leaves its lap, finished and finishTime as they
\* were and passes no lap event on, start-line crossings included, while
\* updatePhysics steps its state as it steps any craft's.
C25_FinishedCraftLatched ==
    (lastAction = "frame" /\ prev[0].finished) =>
        /\ ships[0].lap = prev[0].lap
        /\ ships[0].finished
        /\ ships[0].finishTime = prev[0].finishTime
        /\ forwarded[0] = "NONE"
        /\ ships[0].state
              = updatePhysics(prev[0].state, keys, PhysTrackLength, lastDt, raceStarted).state

\* a finished craft crossed the start line at speed: updatePhysics called the callback
\* and nothing was passed on
C25_FinishedCraftCrossed ==
    /\ lastAction = "frame"
    /\ prev[0].finished
    /\ prev[0].state.hasCrossedStartLine
    /\ emitted[0] = "INCREMENT"
    /\ forwarded[0] = "NONE"
    /\ ships[0].state.trackProgress < prev[0].state.trackProgress

C27_LapNeedsFullLoop ==
    (lastAction = "loop" /\ emitted[0] = "INCREMENT") => travel >= PU

\* C29: a craft that the hard clamp has left at |lateralPosition| = 59.9 and that holds
\* strafe away from that wall from then on is eventually within the soft-wall limit,
\* |lateralPosition| < 55.
C29_LeavesWall ==
    (lastAction = "frame" /\ Abs(ships[0].state.lateralPosition) = visualWallLimit - 100)
        ~> (Abs(ships[0].state.lateralPosition) < softWallLimit)

\* C30: an opponent's longitudinal velocity is never negative, and once the race has
\* started every opponent is eventually finished, the frames going on.
C30_AiFinishes ==
    /\ [](\A i \in OppIds : ships[i].state.velocity.y >= 0)
    /\ \A i \in OppIds : raceStarted ~> ships[i].finished

\* an opponent finished on its sixth lap event in a race without a cheat key
C30_AiFinishedByRacing ==
    /\ lastAction = "frame"
    /\ keyEvents = 0
    /\ \E i \in OppIds :
          /\ ~prev[i].finished
          /\ ships[i].finished
          /\ prev[i].lap = TOTAL_LAPS
          /\ emitted[i] = "INCREMENT"
          /\ ships[i].state.velocity.y > prev[i].state.velocity.y

====
